---------------------------- MODULE Spec2Model ----------------------------
(***************************************************************************)
(* A model of the R_t estimation code of ResearchLuxembourg/Covid-19:      *)
(*   src/src/restimator.py            prepare_cases, highest_density_      *)
(*                                    interval, get_posteriors and the     *)
(*                                    module-level script that calls them  *)
(*   src/components/check/src/checkfile.py   checkfile                     *)
(*                                                                         *)
(* Floating-point numbers are modelled by rationals <<n, d>> with d > 0,   *)
(* plus the value NaN.  prepare_cases and highest_density_interval compute *)
(* on them exactly; get_posteriors, whose products run over many days,     *)
(* rounds every result it stores to the nearest multiple of 1/Precision,   *)
(* as floating point rounds to its own precision.  The transcendental      *)
(* library functions the code calls (np.exp, and the exponentials inside   *)
(* sps.poisson.pmf and sps.norm.pdf) are replaced by the rational function *)
(* ExpQ, which keeps what the code relies on: exp(0) = 1, positivity,      *)
(* monotonicity, and exp(-x) = 1/exp(x).                                   *)
(***************************************************************************)
EXTENDS Integers, Sequences, FiniteSets, TLC

VARIABLES
    hdi_pmf,      \* highest_density_interval: the pmf argument (Seq of rationals)
    hdi_p,        \* the coverage p of the last call
    hdi_out,      \* what the last call did: a (low, high) pair or an error
    hdi_prev,     \* (p, outcome) of the call before, on the same pmf
    pc_cases,     \* prepare_cases: the cumulative series passed as cases
    pc_out,       \* what the call did: (original, smoothed) or an error
    gp_sr,        \* get_posteriors: the smoothed series passed as sr
    gp_pc,        \* where the call is: "ready", "loop", "returned"
    gp_gamma,     \* gamma, drawn once per call, one value per grid point
    gp_day,       \* the position in date of the loop's next current_day
    gp_posteriors,\* the columns of posteriors stored so far, in date order
    gp_logs,      \* log_likelihood, as the arguments of the logarithms it sums
    gp_runs,      \* what each completed call returned, with the gamma it drew
    cf_file,      \* checkfile: the file inputfile names
    cf_place,     \* where that file is: where it was put, or input/input-data.xlsx
    cf_out,       \* what the call did: "True" or the exception raised
    m_data,       \* the script: data_df, the rows read, oldest first
    m_pc,         \* where the script is
    m_i,          \* the loop variable i of line 272
    m_calls,      \* the functions the script has called, in order
    m_smoothed,   \* smoothed, as prepare_cases last returned it
    m_posteriors, \* posteriors, as get_posteriors last returned it
    m_results     \* result_all and result: a table per finished iteration

hdiVars == <<hdi_pmf, hdi_p, hdi_out, hdi_prev>>
pcVars == <<pc_cases, pc_out>>
cfVars == <<cf_file, cf_place, cf_out>>
mVars == <<m_data, m_pc, m_i, m_calls, m_smoothed, m_posteriors, m_results>>
gpVars == <<gp_sr, gp_pc, gp_gamma, gp_day, gp_posteriors, gp_logs, gp_runs>>

vars == <<hdi_pmf, hdi_p, hdi_out, hdi_prev, pc_cases, pc_out,
          gp_sr, gp_pc, gp_gamma, gp_day, gp_posteriors, gp_logs, gp_runs,
          cf_file, cf_place, cf_out,
          m_data, m_pc, m_i, m_calls, m_smoothed, m_posteriors, m_results>>

(***************************************************************************)
(* Bounds of the model.                                                    *)
(***************************************************************************)
GridLen == 3          \* number of points of r_t_range (the code uses 1001)
Precision == 1000     \* get_posteriors keeps its floats to 1/Precision
LastDay == 4          \* yesterday, in days counted from 2020-02-28 as day 1
MaxRows == 3          \* most rows of a file given to checkfile
MaxDays == 3          \* a smoothed series given to get_posteriors has at most
                      \* MaxDays days
MaxCount == 2         \* largest smoothed daily count of such a series
MaxTail == 3          \* a series has at most idx_start + MaxTail days
MaxIncr == 2          \* largest regular daily increment of a drawn series
MaxDrop == 2          \* largest decrease injected into a drawn series
PmfLen == 4           \* number of entries of a pmf drawn for
                      \* highest_density_interval
HalfUnits == 3        \* a pmf drawn for highest_density_interval has
                      \* entries k / (2 * HalfUnits)

(***************************************************************************)
(* Floats as rationals.                                                    *)
(***************************************************************************)
NaN == <<0, 0>>

IsNaN(a) == a[2] = 0

Abs(n) == IF n < 0 THEN -n ELSE n

RECURSIVE Gcd(_, _)
Gcd(a, b) == IF b = 0 THEN a ELSE Gcd(b, a % b)

\* the rational n/d in lowest terms, d # 0
Rat(n, d) ==
    LET g == Gcd(Abs(n), Abs(d))
        s == IF d < 0 THEN -1 ELSE 1
    IN  <<s * (n \div g), s * (d \div g)>>

Zero == Rat(0, 1)
One == Rat(1, 1)

RAdd(a, b) ==
    IF IsNaN(a) \/ IsNaN(b) THEN NaN
    ELSE Rat(a[1] * b[2] + b[1] * a[2], a[2] * b[2])

RSub(a, b) ==
    IF IsNaN(a) \/ IsNaN(b) THEN NaN
    ELSE Rat(a[1] * b[2] - b[1] * a[2], a[2] * b[2])

RMul(a, b) ==
    IF IsNaN(a) \/ IsNaN(b) THEN NaN
    ELSE Rat(a[1] * b[1], a[2] * b[2])

\* IEEE division as numpy does it for the operands the code produces: x/0 is
\* reached only as 0/0 (a zero denominator is a sum of non-negative numerators,
\* so every numerator is zero too), which is NaN, with no exception raised.
RDiv(a, b) ==
    IF IsNaN(a) \/ IsNaN(b) \/ b[1] = 0 THEN NaN
    ELSE Rat(a[1] * b[2], a[2] * b[1])

\* a > b on floats: any comparison with NaN is False
RGreater(a, b) ==
    /\ ~IsNaN(a)
    /\ ~IsNaN(b)
    /\ a[1] * b[2] > b[1] * a[2]

\* a >= b on floats
RGeq(a, b) ==
    /\ ~IsNaN(a)
    /\ ~IsNaN(b)
    /\ a[1] * b[2] >= b[1] * a[2]

RLeq(a, b) == RGeq(b, a)

RECURSIVE RSum(_, _)
\* np.sum / the last entry of np.cumsum: the sum of the first n entries of s
RSum(s, n) == IF n = 0 THEN Zero ELSE RAdd(RSum(s, n - 1), s[n])

(***************************************************************************)
(* prepare_cases (lines 45-57).  A Series is a sequence of floats; its     *)
(* index is the position.                                                  *)
(***************************************************************************)
idx_start == 22

RollingWindow == 7

\* cases.diff(): NaN first, then each value minus the one before
diff(cases) ==
    [i \in 1..Len(cases) |->
        IF i = 1 THEN NaN ELSE Rat(cases[i] - cases[i - 1], 1)]

\* Series.any(): whether some entry, NaN skipped, is not zero
any(series) == \E i \in 1..Len(series) : ~IsNaN(series[i]) /\ series[i] # Zero

\* a Python bool in a comparison with a number is 0 or 1
BoolAsInt(b) == IF b THEN 1 ELSE 0

\* new_cases.any() < 0
NegativeCheck(new_cases) == BoolAsInt(any(new_cases)) < 0

\* np.round of n/d, d > 0: to the nearest integer, a half to the even one
RoundHalfEven(n, d) ==
    LET q == n \div d
        r == n - q * d
    IN  IF 2 * r < d THEN q
        ELSE IF 2 * r > d THEN q + 1
        ELSE IF q % 2 = 0 THEN q ELSE q + 1

round(a) == IF IsNaN(a) THEN NaN ELSE Rat(RoundHalfEven(a[1], a[2]), 1)

\* rolling(7, min_periods=1, center=False).mean() at position i: the mean of
\* the entries that are not NaN among the last 7, NaN when there is none
RollingMean(series, i) ==
    LET first == IF i > RollingWindow THEN i - RollingWindow + 1 ELSE 1
        valid == {j \in first..i : ~IsNaN(series[j])}
        vals == [j \in 1..(i - first + 1) |->
                    IF IsNaN(series[first + j - 1]) THEN Zero
                    ELSE series[first + j - 1]]
    IN  IF Cardinality(valid) < 1 THEN NaN
        ELSE RDiv(RSum(vals, i - first + 1), Rat(Cardinality(valid), 1))

\* series.iloc[idx_start:]
FromIdxStart(series) ==
    IF Len(series) <= idx_start THEN <<>>
    ELSE SubSeq(series, idx_start + 1, Len(series))

prepare_cases(cases) ==
    LET new_cases == diff(cases)
        rolled == [i \in 1..Len(cases) |-> round(RollingMean(new_cases, i))]
    IN  IF NegativeCheck(new_cases)
        THEN [status |-> "ValueError", original |-> <<>>, smoothed |-> <<>>]
        ELSE [status |-> "ok",
              original |-> FromIdxStart(new_cases),
              smoothed |-> FromIdxStart(rolled)]

(***************************************************************************)
(* highest_density_interval (the branch for one pmf, lines 67-75).         *)
(* Positions are 1-based here, 0-based in the code; a width high - low is  *)
(* the same in both.                                                       *)
(***************************************************************************)
\* cumsum = np.cumsum(pmf.values)
cumsum(pmf) == [j \in 1..Len(pmf) |-> RSum(pmf, j)]

\* total_p = cumsum - cumsum[:, None]: total_p[low][high] = cumsum[high] - cumsum[low]
total_p(pmf) ==
    LET cs == cumsum(pmf)
    IN  [low \in 1..Len(pmf) |-> [high \in 1..Len(pmf) |-> RSub(cs[high], cs[low])]]

\* lows, highs = (total_p > p).nonzero(): the pairs, as a set
Candidates(pmf, p) ==
    LET tp == total_p(pmf)
    IN  {c \in (1..Len(pmf)) \X (1..Len(pmf)) : RGreater(tp[c[1]][c[2]], p)}

\* lows.argmax() in place of (highs - lows).argmin(): the first pair, in
\* nonzero()'s order, among those of the largest low, whatever its width
MutArgBest(cands) ==
    CHOOSE c \in cands :
        \A e \in cands :
            \/ c[1] > e[1]
            \/ c[1] = e[1] /\ c[2] <= e[2]

\* best = (highs - lows).argmin(): the first pair, in nonzero()'s row-major
\* order, among those of the smallest high - low
ArgBest(cands) ==
    CHOOSE c \in cands :
        \A e \in cands :
            \/ c[2] - c[1] < e[2] - e[1]
            \/ /\ c[2] - c[1] = e[2] - e[1]
               /\ \/ c[1] < e[1]
                  \/ c[1] = e[1] /\ c[2] <= e[2]

\* argmin of an empty array raises ValueError; nothing else in the function
\* looks at p or at the pmf
highest_density_interval(pmf, p) ==
    LET cands == Candidates(pmf, p)
    IN  IF cands = {}
        THEN [status |-> "ValueError", low |-> 0, high |-> 0]
        ELSE LET best == ArgBest(cands)
             IN  [status |-> "ok", low |-> best[1], high |-> best[2]]

(***************************************************************************)
(* get_posteriors (lines 79-125).  The dates are the positions 1..Len(sr); *)
(* log_likelihood, a sum of logarithms, is held as the sequence gp_logs of *)
(* the arguments of np.log, one per day: equal sequences are equal sums.   *)
(***************************************************************************)
\* a float of get_posteriors: x rounded to the nearest multiple of 1/Precision
Fl(x) ==
    IF IsNaN(x) THEN NaN
    ELSE Rat((2 * x[1] * Precision + x[2]) \div (2 * x[2]), Precision)

\* the number of units 1/Precision in a rounded float
Units(a) == a[1] * (Precision \div a[2])

\* a * b on rounded floats
FMul(a, b) ==
    IF IsNaN(a) \/ IsNaN(b) THEN NaN
    ELSE Rat((2 * Units(a) * Units(b) + Precision) \div (2 * Precision), Precision)

\* a / b on rounded floats; as for RDiv, a zero divisor is met only as 0/0
FDiv(a, b) ==
    IF IsNaN(a) \/ IsNaN(b) \/ b[1] = 0 THEN NaN
    ELSE Rat((2 * Units(a) * Precision + Units(b)) \div (2 * Units(b)), Precision)

R_T_MAX == 10

\* r_t_range = np.linspace(0, R_T_MAX, GridLen)
r_t_range == [i \in 1..GridLen |-> Rat(R_T_MAX * (i - 1), GridLen - 1)]

\* the stand-in for exp
ExpQ(x) ==
    IF IsNaN(x) THEN NaN
    ELSE IF x[1] >= 0 THEN RAdd(One, x)
    ELSE RDiv(One, RSub(One, x))

RECURSIVE Factorial(_)
Factorial(k) == IF k <= 0 THEN 1 ELSE k * Factorial(k - 1)

RECURSIVE RPow(_, _)
RPow(a, k) == IF k = 0 THEN One ELSE RMul(a, RPow(a, k - 1))

\* outcomes of np.random.normal(4, 0.2) the model draws from
NormalDraws == {Rat(4, 1), Rat(5, 1)}

\* gamma = 1/np.random.normal(4, 0.2, len(r_t_range))
Gammas == [1..GridLen -> {RDiv(One, x) : x \in NormalDraws}]

\* lam = sr[:-1] * np.exp(gamma[:, None] * (r_t_range[:, None] - 1)), at grid
\* point i and previous day t
lam(sr, gamma, i, t) ==
    RMul(Rat(sr[t], 1), ExpQ(RMul(gamma[i], RSub(r_t_range[i], One))))

\* sps.poisson.pmf(k, mu): mu^k exp(-mu) / k!; at mu = 0 all the mass is on
\* k = 0; nan for mu < 0
poisson_pmf(k, mu) ==
    IF IsNaN(mu) \/ mu[1] < 0 THEN NaN
    ELSE IF k < 0 THEN Zero
    ELSE IF mu = Zero THEN (IF k = 0 THEN One ELSE Zero)
    ELSE RDiv(RMul(RPow(mu, k), ExpQ(RSub(Zero, mu))), Rat(Factorial(k), 1))

\* likelihoods[current_day], the column of date position t >= 2
likelihoods(sr, gamma, t) ==
    [i \in 1..GridLen |-> Fl(poisson_pmf(sr[t], lam(sr, gamma, i, t - 1)))]

\* sigma, the scale of the process noise: the model runs get_posteriors with
\* one grid step
sigma == Rat(R_T_MAX, GridLen - 1)

\* sps.norm(loc, scale).pdf(x), without its constant factor 1/sqrt(2 pi),
\* which the normalisation of line 94 cancels
norm_pdf(x, loc, scale) ==
    LET z == RDiv(RSub(x, loc), scale)
    IN  RDiv(ExpQ(RSub(Zero, RDiv(RMul(z, z), Rat(2, 1)))), scale)

\* process_matrix before line 94: row i, column j is the density of
\* N(r_t_range[j], sigma) at r_t_range[i]
GaussianMatrix ==
    [i \in 1..GridLen |-> [j \in 1..GridLen |->
        norm_pdf(r_t_range[i], r_t_range[j], sigma)]]

\* process_matrix.sum(axis=0): the sum of column j
ColumnSum(j) == RSum([i \in 1..GridLen |-> GaussianMatrix[i][j]], GridLen)

\* process_matrix /= process_matrix.sum(axis=0)
process_matrix ==
    [i \in 1..GridLen |-> [j \in 1..GridLen |->
        Fl(RDiv(GaussianMatrix[i][j], ColumnSum(j)))]]

\* prior0, with state kept from the call before
MutPrior0 ==
    IF gp_runs = <<>> THEN [i \in 1..GridLen |-> Fl(Rat(1, GridLen))]
    ELSE gp_runs[Len(gp_runs)].posteriors[Len(gp_sr)]

\* prior0 = np.ones_like(r_t_range)/len(r_t_range); prior0 /= prior0.sum()
prior0 ==
    LET ones == [i \in 1..GridLen |-> Fl(Rat(1, GridLen))]
    IN  [i \in 1..GridLen |-> FDiv(ones[i], RSum(ones, GridLen))]

\* (5a) current_prior = process_matrix @ posteriors[previous_day]
current_prior(previous) ==
    [i \in 1..GridLen |->
        RSum([j \in 1..GridLen |-> FMul(process_matrix[i][j], previous[j])], GridLen)]

\* (5b) numerator = likelihoods[current_day] * current_prior
numerator(sr, gamma, t, previous) ==
    LET likelihood == likelihoods(sr, gamma, t)
        prior == current_prior(previous)
    IN  [i \in 1..GridLen |-> FMul(likelihood[i], prior[i])]

\* (5c) denominator = np.sum(numerator)
denominator(num) == RSum(num, GridLen)

\* posteriors[current_day] = numerator/denominator
BayesRule(num, den) == [i \in 1..GridLen |-> FDiv(num[i], den)]

\* one iteration of the loop of line 108: the column stored for the date at
\* position t, and the denominator it was divided by
BayesStep(sr, gamma, t, previous) ==
    LET num == numerator(sr, gamma, t, previous)
        den == denominator(num)
    IN  [column |-> BayesRule(num, den), denominator |-> den]

RECURSIVE PosteriorColumns(_, _, _)
\* the columns of posteriors for the dates at positions 1..t
PosteriorColumns(sr, gamma, t) ==
    IF t = 1 THEN <<prior0>>
    ELSE LET before == PosteriorColumns(sr, gamma, t - 1)
         IN  Append(before, BayesStep(sr, gamma, t, before[t - 1]).column)

\* the table get_posteriors(sr, date) returns when it draws gamma
get_posteriors(sr, gamma) == PosteriorColumns(sr, gamma, Len(sr))

(***************************************************************************)
(* highest_density_interval on a DataFrame (lines 63-65), one call per     *)
(* column; an exception of any of them ends the whole call.                *)
(***************************************************************************)
highest_density_intervals(posteriors, p) ==
    LET each == [t \in 1..Len(posteriors) |->
                    highest_density_interval(posteriors[t], p)]
    IN  IF \E t \in 1..Len(posteriors) : each[t].status # "ok"
        THEN [status |-> "ValueError", hdis |-> <<>>]
        ELSE [status |-> "ok", hdis |-> each]

\* posteriors.idxmax() for one column: the first position of the largest entry
idxmax(col) ==
    CHOOSE i \in 1..Len(col) :
        /\ \A j \in 1..Len(col) : RGeq(col[i], col[j])
        /\ \A j \in 1..(i - 1) : ~RGeq(col[j], col[i])

(***************************************************************************)
(* The script (lines 237-299): the rows read into data_df, the check of    *)
(* the date order, and the loop over the two series.                       *)
(***************************************************************************)
\* matplotlib's date2num: days since 1970-01-01, day 1 being 2020-02-28
date2num(day) == 18319 + day

\* data_df.set_index(data_df.report_date + DT.timedelta(days=1)), then
\* dates = data_df.iloc[idx_start:].index
dates(data_df) == FromIdxStart([j \in 1..Len(data_df) |-> data_df[j].report_date + 1])

\* lines 256-258: indexing past the end raises IndexError
DateOrderCheck(data_df) ==
    LET dates_detection == [j \in 1..Len(dates(data_df)) |-> date2num(dates(data_df)[j])]
    IN  IF Len(dates_detection) < 3 THEN "IndexError"
        ELSE IF dates_detection[2] > dates_detection[3] THEN "ValueError"
        ELSE "ok"

RECURSIVE cumsum_int(_, _)
cumsum_int(series, n) ==
    IF n = 0 THEN <<>>
    ELSE LET before == cumsum_int(series, n - 1)
         IN  Append(before, (IF n = 1 THEN 0 ELSE before[n - 1]) + series[n])

\* cases = data_df.new_cases.cumsum() for i = 1, the residents' for i = 2
cases_of(data_df, i) ==
    cumsum_int([j \in 1..Len(data_df) |->
                   IF i = 1 THEN data_df[j].new_cases
                   ELSE data_df[j].new_cases_resident], Len(data_df))

\* smoothed.values, whose entries are whole numbers
smoothed_array(smoothed) == [t \in 1..Len(smoothed) |-> smoothed[t][1]]

\* pd.concat([most_likely, hdis], axis=1), in grid values
ResultTable(posteriors, hdis) ==
    [t \in 1..Len(posteriors) |->
        [estimate |-> r_t_range[idxmax(posteriors[t])],
         low |-> r_t_range[hdis[t].low],
         high |-> r_t_range[hdis[t].high]]]

(***************************************************************************)
(* checkfile (checkfile.py, lines 13-80).  A date is a day number, day 1   *)
(* being 2020-02-28; a cell of the sheet is a number or a string.          *)
(***************************************************************************)
\* date.strftime('%Y%m%d') as a number, for the days of February and March 2020
strftime(day) == IF day <= 2 THEN 20200227 + day ELSE 20200300 + (day - 2)

expected_first_date_reporting == 20200228

\* datetime.now() - DT.timedelta(days=1)
expected_latest_date_reporting == LastDay

Number(n) == [type |-> "number", value |-> Rat(n, 1)]
Text == [type |-> "str", value |-> Zero]

\* x < 0 and x < y on cells that are numbers
Negative(x) == RGreater(Zero, x.value)
Less(x, y) == RGreater(y.value, x.value)

\* pd.read_excel(inputfile).iloc[::-1].reset_index(): the rows, last first
Reversed(rows) == [i \in 1..Len(rows) |-> rows[Len(rows) + 1 - i]]

\* lines 46-53: the first row, in the order read, that makes the loop raise
BadEntry(full_data) ==
    \E i \in 1..Len(full_data) :
        \/ full_data[i].new_cases.type = "str"
        \/ full_data[i].new_cases_resident.type = "str"
        \/ Negative(full_data[i].new_cases)
        \/ Negative(full_data[i].new_cases_resident)

\* lines 56-59
FewerThanResident(full_data) ==
    \E i \in 1..Len(full_data) :
        Less(full_data[i].new_cases, full_data[i].new_cases_resident)

\* lines 62-64
LatestMissing(full_data) ==
    strftime(full_data[Len(full_data)].report_date)
        # strftime(expected_latest_date_reporting)

\* lines 67-73
FirstMissing(full_data) ==
    ~\E i \in 1..Len(full_data) :
        strftime(full_data[i].report_date) = expected_first_date_reporting

\* the outcome of checkfile(inputfile): "True", or the exception
checkfile(file) ==
    LET full_data == Reversed(file.rows)
    IN  IF ~file.exists THEN "ValueError"
        ELSE IF file.extension # ".xlsx" THEN "ValueError"
        ELSE IF file.name # "expected_name" THEN "ValueError"
        ELSE IF "report_date" \notin file.columns THEN "ValueError"
        ELSE IF "new_cases" \notin file.columns THEN "ValueError"
        ELSE IF "new_cases_resident" \notin file.columns THEN "ValueError"
        ELSE IF BadEntry(full_data) THEN "ValueError"
        ELSE IF FewerThanResident(full_data) THEN "ValueError"
        ELSE IF full_data = <<>> THEN "IndexError"
        ELSE IF LatestMissing(full_data) THEN "ValueError"
        ELSE IF FirstMissing(full_data) THEN "ValueError"
        ELSE "True"

(***************************************************************************)
(* The inputs highest_density_interval is run on.                          *)
(***************************************************************************)
PmfUnits == 2 * HalfUnits

RECURSIVE ISum(_, _)
ISum(w, n) == IF n = 0 THEN 0 ELSE ISum(w, n - 1) + w[n]

\* the pmfs over a grid of PmfLen points with entries k / PmfUnits:
\* non-negative, summing to 1
Pmfs ==
    {[i \in 1..PmfLen |-> Rat(w[i], PmfUnits)] :
        w \in {v \in [1..PmfLen -> 0..PmfUnits] : ISum(v, PmfLen) = PmfUnits}}

\* a column of NaN, which get_posteriors stores after a zero denominator
NaNColumn == [i \in 1..PmfLen |-> NaN]

\* coverage levels in steps of 1 / PmfUnits, from one step below 0 to one
\* step above 1
Coverages == {Rat(k, PmfUnits) : k \in (0 - 1)..(PmfUnits + 1)}

NoCall == [status |-> "none", low |-> 0, high |-> 0]

HdiIdle ==
    /\ hdi_pmf = <<>>
    /\ hdi_p = Zero
    /\ hdi_out = NoCall
    /\ hdi_prev = [p |-> Zero, out |-> NoCall]

PcIdle ==
    /\ pc_cases = <<>>
    /\ pc_out = [status |-> "none", original |-> <<>>, smoothed |-> <<>>]

GpIdle ==
    /\ gp_sr = <<>>
    /\ gp_pc = "idle"
    /\ gp_gamma = <<>>
    /\ gp_day = 0
    /\ gp_posteriors = <<>>
    /\ gp_logs = <<>>
    /\ gp_runs = <<>>

CfIdle ==
    /\ cf_file = [exists |-> FALSE, extension |-> "", name |-> "", columns |-> {},
                  rows |-> <<>>]
    /\ cf_place = ""
    /\ cf_out = "none"

MIdle ==
    /\ m_data = <<>>
    /\ m_pc = "idle"
    /\ m_i = 0
    /\ m_calls = <<>>
    /\ m_smoothed = <<>>
    /\ m_posteriors = <<>>
    /\ m_results = <<>>

HdiInit ==
    /\ PcIdle
    /\ GpIdle
    /\ CfIdle
    /\ MIdle
    /\ hdi_pmf \in Pmfs \cup {NaNColumn}
    /\ hdi_p = Zero
    /\ hdi_out = NoCall
    /\ hdi_prev = [p |-> Zero, out |-> NoCall]

\* one call highest_density_interval(pmf, p) on the pmf held; a pmf is taken
\* through two calls, the last two being all that is kept
HdiCall ==
    \E p \in Coverages :
        /\ hdi_prev.out.status = "none"
        /\ hdi_prev' = [p |-> hdi_p, out |-> hdi_out]
        /\ hdi_p' = p
        /\ hdi_out' = highest_density_interval(hdi_pmf, p)
        /\ UNCHANGED <<hdi_pmf, pcVars, gpVars, cfVars, mVars>>

HdiNext == HdiCall

SpecHDI == HdiInit /\ [][HdiNext]_vars

(***************************************************************************)
(* The cumulative series prepare_cases is run on: n days of a regular      *)
(* increment d, with at most one decrease of m injected, at day k.         *)
(***************************************************************************)
RECURSIVE Cumulative(_, _, _, _)
Cumulative(n, d, k, m) ==
    IF n = 0 THEN <<>>
    ELSE LET before == Cumulative(n - 1, d, k, m)
             last == IF n = 1 THEN 0 ELSE before[n - 1]
         IN  Append(before, last + (IF n = k THEN 0 - m ELSE d))

\* a cumulative count is never below zero; k = 0 injects no decrease
CaseSeries ==
    {c \in {Cumulative(n, d, k, m) :
                n \in (idx_start + 1)..(idx_start + MaxTail), d \in 0..MaxIncr,
                k \in {0} \cup (2..(idx_start + MaxTail)), m \in 1..MaxDrop} :
        \A i \in 1..Len(c) : c[i] >= 0}

PcInit ==
    /\ HdiIdle
    /\ GpIdle
    /\ CfIdle
    /\ MIdle
    /\ pc_cases \in CaseSeries
    /\ pc_out = [status |-> "none", original |-> <<>>, smoothed |-> <<>>]

\* one call prepare_cases(cases)
PcCall ==
    /\ pc_out.status = "none"
    /\ pc_out' = prepare_cases(pc_cases)
    /\ UNCHANGED <<pc_cases, hdiVars, gpVars, cfVars, mVars>>

PcNext == PcCall

SpecPrepare == PcInit /\ [][PcNext]_vars

(***************************************************************************)
(* get_posteriors, run on smoothed series of 2 to MaxDays days with counts *)
(* 0..MaxCount, twice on the same series.                                  *)
(***************************************************************************)
SmoothedSeries ==
    UNION {[1..n -> 0..MaxCount] : n \in 2..MaxDays}

GpInit ==
    /\ HdiIdle
    /\ PcIdle
    /\ CfIdle
    /\ MIdle
    /\ gp_sr \in SmoothedSeries
    /\ gp_pc = "ready"
    /\ gp_gamma = <<>>
    /\ gp_day = 0
    /\ gp_posteriors = <<>>
    /\ gp_logs = <<>>
    /\ gp_runs = <<>>

\* lines 81-105: the draw of gamma, the prior stored as the first column,
\* log_likelihood = 0.0
GpCall ==
    /\ gp_pc \in {"ready", "returned"}
    /\ Len(gp_runs) < 2
    /\ \E g \in Gammas : gp_gamma' = g
    /\ gp_posteriors' = <<prior0>>
    /\ gp_logs' = <<>>
    /\ gp_day' = 2
    /\ gp_pc' = "loop"
    /\ UNCHANGED <<gp_sr, gp_runs, hdiVars, pcVars, cfVars, mVars>>

\* one iteration of the loop of line 108, for current_day = gp_day
GpStep ==
    /\ gp_pc = "loop"
    /\ gp_day <= Len(gp_sr)
    /\ LET previous == gp_posteriors[gp_day - 1]
           num == numerator(gp_sr, gp_gamma, gp_day, previous)
           den == denominator(num)
       IN  /\ gp_posteriors' = Append(gp_posteriors, BayesRule(num, den))
           /\ gp_logs' = Append(gp_logs, den)
    /\ gp_day' = gp_day + 1
    /\ UNCHANGED <<gp_sr, gp_pc, gp_gamma, gp_runs, hdiVars, pcVars, cfVars, mVars>>

\* return posteriors, log_likelihood
GpReturn ==
    /\ gp_pc = "loop"
    /\ gp_day > Len(gp_sr)
    /\ gp_pc' = "returned"
    /\ gp_runs' = Append(gp_runs, [gamma |-> gp_gamma,
                                   posteriors |-> gp_posteriors,
                                   log_likelihood |-> gp_logs])
    /\ UNCHANGED <<gp_sr, gp_gamma, gp_day, gp_posteriors, gp_logs,
                   hdiVars, pcVars, cfVars, mVars>>

GpNext == GpCall \/ GpStep \/ GpReturn

SpecPosteriors == GpInit /\ [][GpNext]_vars

(***************************************************************************)
(* checkfile, run on a file whose name, extension or columns may be wrong  *)
(* (with no rows, then), or on a well-named file of up to MaxRows rows.    *)
(***************************************************************************)
AllColumns == {"report_date", "new_cases", "new_cases_resident"}

\* the (new_cases, new_cases_resident) cells of a row
CellPairs ==
    {<<Number(0), Number(0)>>, <<Number(1), Number(0)>>, <<Number(1), Number(1)>>,
     <<Number(0), Number(1)>>, <<Number(0 - 1), Number(0)>>,
     <<Number(1), Number(0 - 1)>>, <<Text, Number(0)>>, <<Number(1), Text>>}

Rows ==
    {[report_date |-> d, new_cases |-> c[1], new_cases_resident |-> c[2]] :
        d \in 1..LastDay, c \in CellPairs}

Sheets == UNION {[1..n -> Rows] : n \in 0..MaxRows}

Files ==
    {[exists |-> e, extension |-> x, name |-> n, columns |-> AllColumns \ m,
      rows |-> <<>>] :
        e \in BOOLEAN, x \in {".xlsx", ".csv"},
        n \in {"expected_name", "other"},
        m \in {{}, {"report_date"}, {"new_cases"}, {"new_cases_resident"}}}
    \cup
    {[exists |-> TRUE, extension |-> ".xlsx", name |-> "expected_name",
      columns |-> AllColumns, rows |-> r] : r \in Sheets}

CfInit ==
    /\ HdiIdle
    /\ PcIdle
    /\ GpIdle
    /\ MIdle
    /\ cf_file \in Files
    /\ cf_place = "inputfile"
    /\ cf_out = "none"

\* one call checkfile(inputfile); os.rename is reached on the last path only
CfCall ==
    /\ cf_out = "none"
    /\ cf_out' = checkfile(cf_file)
    /\ cf_place' = IF checkfile(cf_file) = "True" THEN "input/input-data.xlsx"
                   ELSE cf_place
    /\ UNCHANGED <<cf_file, hdiVars, pcVars, gpVars, mVars>>

CfNext == CfCall

SpecCheckfile == CfInit /\ [][CfNext]_vars

(***************************************************************************)
(* The script, run on idx_start + 1 to idx_start + MaxTail rows: a daily   *)
(* count of a up to idx_start and of b after it, residents all or none of  *)
(* them, and the dates in order, with two neighbours swapped, or reversed. *)
(***************************************************************************)
DateOrders(n) ==
    {[j \in 1..n |-> j]} \cup {[j \in 1..n |-> n + 1 - j]}
    \cup {[j \in 1..n |-> IF j = k THEN k + 1 ELSE IF j = k + 1 THEN k ELSE j] :
              k \in 1..(n - 1)}

DataFrames ==
    UNION {{[j \in 1..n |->
               [report_date |-> order[j],
                new_cases |-> IF j <= idx_start THEN a ELSE b,
                new_cases_resident |->
                    IF resident THEN (IF j <= idx_start THEN a ELSE b) ELSE 0]] :
              order \in DateOrders(n), a \in 0..1, b \in {0, 2 * MaxIncr},
              resident \in BOOLEAN} :
           n \in (idx_start + 1)..(idx_start + MaxTail)}

MInit ==
    /\ HdiIdle
    /\ PcIdle
    /\ GpIdle
    /\ CfIdle
    /\ m_data \in DataFrames
    /\ m_pc = "check"
    /\ m_i = 0
    /\ m_calls = <<>>
    /\ m_smoothed = <<>>
    /\ m_posteriors = <<>>
    /\ m_results = <<>>

\* lines 255-258
MDateCheck ==
    /\ m_pc = "check"
    /\ m_pc' = IF DateOrderCheck(m_data) = "ok" THEN "prepare"
               ELSE DateOrderCheck(m_data)
    /\ m_i' = IF DateOrderCheck(m_data) = "ok" THEN 1 ELSE m_i
    /\ UNCHANGED <<m_data, m_calls, m_smoothed, m_posteriors, m_results,
                   hdiVars, pcVars, gpVars, cfVars>>

\* lines 273-277: original, smoothed = prepare_cases(cases)
MPrepare ==
    /\ m_pc = "prepare"
    /\ m_calls' = Append(m_calls, "prepare_cases")
    /\ LET out == prepare_cases(cases_of(m_data, m_i))
       IN  /\ m_smoothed' = out.smoothed
           /\ m_pc' = IF out.status = "ok" THEN "posteriors" ELSE out.status
    /\ UNCHANGED <<m_data, m_i, m_posteriors, m_results,
                   hdiVars, pcVars, gpVars, cfVars>>

\* line 288: posteriors, log_likelihood = get_posteriors(smoothed_array, dates)
MPosteriors ==
    /\ m_pc = "posteriors"
    /\ m_calls' = Append(m_calls, "get_posteriors")
    /\ \E gamma \in Gammas :
           m_posteriors' = get_posteriors(smoothed_array(m_smoothed), gamma)
    /\ m_pc' = "intervals"
    /\ UNCHANGED <<m_data, m_i, m_smoothed, m_results,
                   hdiVars, pcVars, gpVars, cfVars>>

\* lines 291-299: the intervals at p = .5, the estimate, the table kept
MIntervals ==
    /\ m_pc = "intervals"
    /\ m_calls' = Append(m_calls, "highest_density_interval")
    /\ LET out == highest_density_intervals(m_posteriors, Rat(1, 2))
       IN  IF out.status = "ok"
           THEN /\ m_results' = Append(m_results, ResultTable(m_posteriors, out.hdis))
                /\ m_pc' = IF m_i = 1 THEN "prepare" ELSE "done"
                /\ m_i' = IF m_i = 1 THEN 2 ELSE m_i
           ELSE /\ m_pc' = out.status
                /\ UNCHANGED <<m_results, m_i>>
    /\ UNCHANGED <<m_data, m_smoothed, m_posteriors,
                   hdiVars, pcVars, gpVars, cfVars>>

MNext == MDateCheck \/ MPrepare \/ MPosteriors \/ MIntervals

SpecScript == MInit /\ [][MNext]_vars

(***************************************************************************)
(* Claims about the script, checked under SpecScript.                      *)
(***************************************************************************)
OutOfOrder(seq) == \E j \in 2..Len(seq) : seq[j - 1] > seq[j]

\* C10: when two consecutive dates of the series are out of ascending order,
\* at whatever position, the run ends in an error before prepare_cases or
\* get_posteriors is called.
C10_AnyDisorderAborts ==
    OutOfOrder(dates(m_data)) => m_calls = <<>> /\ m_pc # "done"

(***************************************************************************)
(* Claims about checkfile, checked under SpecCheckfile.                    *)
(***************************************************************************)
FullData == Reversed(cf_file.rows)

Ascending == \A i \in 2..Len(FullData) : FullData[i - 1].report_date < FullData[i].report_date

OneRowPerDay == \A i \in 2..Len(FullData) : FullData[i].report_date = FullData[i - 1].report_date + 1

NumericNonNegative ==
    \A i \in 1..Len(FullData) :
        /\ FullData[i].new_cases.type = "number"
        /\ FullData[i].new_cases_resident.type = "number"
        /\ ~Negative(FullData[i].new_cases)
        /\ ~Negative(FullData[i].new_cases_resident)

HasDay(day) == \E i \in 1..Len(FullData) : FullData[i].report_date = day

\* C9: a file checkfile accepts (True, moved to input/input-data.xlsx) holds a
\* series in ascending date order, one row per day without gaps, with numeric
\* non-negative counts, from 2020-02-28 to yesterday; any other file makes it
\* raise and stays where it was.
C9_AcceptedFileIsClean ==
    cf_out # "none" =>
        /\ (cf_out = "True") <=>
              (/\ Ascending /\ OneRowPerDay /\ NumericNonNegative
               /\ HasDay(1) /\ HasDay(LastDay))
        /\ cf_out = "True" => cf_place = "input/input-data.xlsx"
        /\ cf_out # "True" => cf_place = "inputfile"

(***************************************************************************)
(* Claims about get_posteriors, checked under SpecPosteriors.              *)
(***************************************************************************)
\* a column of get_posteriors is a PMF: no entry is negative or NaN, and the
\* entries sum to 1 within the rounding of GridLen floats
IsRoundedPmf(col) ==
    /\ \A i \in 1..GridLen : RLeq(Zero, col[i])
    /\ RLeq(RSub(One, Rat(GridLen, Precision)), RSum(col, GridLen))
    /\ RLeq(RSum(col, GridLen), RAdd(One, Rat(GridLen, Precision)))

\* C2: every column of the table get_posteriors returns, the prior of the
\* first date and the posterior of every later date, is a PMF.
C2_ReturnedColumnsArePmfs ==
    gp_pc = "returned" =>
        \A t \in 1..Len(gp_posteriors) : IsRoundedPmf(gp_posteriors[t])

\* C3: when the denominator of a day is zero the run stops with an error at
\* that day: no posterior is stored for that day or a later one, and no table
\* is returned.  (gp_logs[t] is the denominator of date position t + 1.)
C3_ZeroDenominatorStops ==
    \A t \in 1..Len(gp_logs) :
        gp_logs[t] = Zero =>
            /\ gp_pc = "DegenerateLikelihoodError"
            /\ Len(gp_posteriors) <= t

ZeroDenominatorCause ==
    \A t \in 1..Len(gp_logs) :
        /\ (gp_logs[t] = Zero \/ IsNaN(gp_logs[t])) <=>
              \E u \in 1..t : gp_sr[u] = 0 /\ gp_sr[u + 1] > 0
        /\ IsRoundedPmf(gp_posteriors[t + 1]) <=>
              ~(gp_logs[t] = Zero \/ IsNaN(gp_logs[t]))

(***************************************************************************)
(* Claims about prepare_cases, checked under SpecPrepare.                  *)
(***************************************************************************)
HasDecrease(cases) == \E i \in 2..Len(cases) : cases[i] < cases[i - 1]

\* C1: prepare_cases returns (original, smoothed) when no first difference of
\* the cumulative series is negative, and raises, returning nothing, when at
\* least one is.
C1_DecreaseRaises ==
    pc_out.status # "none" =>
        (pc_out.status = "ValueError" <=> HasDecrease(pc_cases))

(***************************************************************************)
(* Claims about highest_density_interval, checked under SpecHDI.           *)
(***************************************************************************)
InUnitInterval(p) == RGreater(p, Zero) /\ RGreater(One, p)

IsPmf(col) ==
    /\ \A i \in 1..Len(col) : RGeq(col[i], Zero)
    /\ RSum(col, Len(col)) = One

\* the probability mass of pmf on the grid points low, low + 1, ..., high
SpanMass(pmf, low, high) ==
    RAdd(RSub(cumsum(pmf)[high], cumsum(pmf)[low]), pmf[low])

HdiReturned == hdi_out.status = "ok"

\* C4: for a pmf summing to 1 and p in (0,1), the returned (low, high) holds
\* mass at least p on the grid points low..high, and no span of grid points of
\* a smaller width holds mass at least p.
C4_MinimalWidthSpan ==
    (HdiReturned /\ IsPmf(hdi_pmf) /\ InUnitInterval(hdi_p)) =>
        /\ hdi_out.low <= hdi_out.high
        /\ RGeq(SpanMass(hdi_pmf, hdi_out.low, hdi_out.high), hdi_p)
        /\ \A i \in 1..PmfLen : \A j \in i..PmfLen :
              RGeq(SpanMass(hdi_pmf, i, j), hdi_p) =>
                  j - i >= hdi_out.high - hdi_out.low

PointMass(g) == [i \in 1..PmfLen |-> IF i = g THEN One ELSE Zero]

Half == Rat(1, 2)

\* C5: for a point mass at grid position g (any position, the first and the
\* last included), the call with p = 0.5 returns low = high = g.
C5_PointMassInterval ==
    \A g \in 1..PmfLen :
        (hdi_pmf = PointMass(g) /\ hdi_p = Half /\ hdi_out.status # "none") =>
            /\ HdiReturned
            /\ hdi_out.low = g
            /\ hdi_out.high = g

\* C6: for a fixed pmf and coverages p1 <= p2 in (0,1) that both return an
\* interval, the width returned for p2 is at least the width returned for p1.
C6_WidthMonotoneInCoverage ==
    /\ (/\ hdi_prev.out.status = "ok" /\ HdiReturned
        /\ InUnitInterval(hdi_prev.p) /\ InUnitInterval(hdi_p)
        /\ RGeq(hdi_p, hdi_prev.p))
       => hdi_out.high - hdi_out.low >= hdi_prev.out.high - hdi_prev.out.low
    /\ (/\ hdi_prev.out.status = "ok" /\ HdiReturned
        /\ InUnitInterval(hdi_prev.p) /\ InUnitInterval(hdi_p)
        /\ RGeq(hdi_prev.p, hdi_p))
       => hdi_prev.out.high - hdi_prev.out.low >= hdi_out.high - hdi_out.low

\* two calls on one pmf, the second with the larger coverage and the strictly
\* wider interval
C6_Witness ==
    /\ hdi_prev.out.status = "ok" /\ HdiReturned
    /\ InUnitInterval(hdi_prev.p) /\ InUnitInterval(hdi_p)
    /\ RGreater(hdi_p, hdi_prev.p)
    /\ hdi_out.high - hdi_out.low > hdi_prev.out.high - hdi_prev.out.low

\* C7: the call fails whenever p is not strictly between 0 and 1, and a
\* returned pair never has low > high.
C7_InvalidCoverageFails ==
    /\ (hdi_out.status # "none" /\ ~InUnitInterval(hdi_p)) => hdi_out.status = "ValueError"
    /\ HdiReturned => hdi_out.low <= hdi_out.high

====
